---- MODULE Spec2Model ----
(***************************************************************************)
(* Model of util/memorydb/src/lib.rs: MemoryDB, the reference-counted,     *)
(* memory-based HashDB.  A store is the map `data` from digests to         *)
(* (value, refcount) pairs; every operation of MemoryDB is an operator on  *)
(* such a map and an action that applies the operator to a store.          *)
(***************************************************************************)
EXTENDS Integers, Sequences, FiniteSets, TLC

VARIABLES data, last, log, subject, merged

vars == <<data, last, log, subject, merged>>

(***************************************************************************)
(* Bounds of the model.                                                    *)
(***************************************************************************)
\* largest absolute refcount an operation may produce (i32 in the source)
MaxRc == 2
\* largest absolute refcount of an entry of the `other` argument of consolidate
MaxOtherRc == 1
\* longest insert/remove history of the documentation scenario
MaxDocOps == 7
\* longest insert/remove history of each side of a split history
MaxSplitOps == 2

(***************************************************************************)
(* Values (byte strings), digests and the Hasher.                          *)
(***************************************************************************)
\* rlp::NULL_RLP, the RLP encoding of empty data: the single byte 0x80
NULL_RLP == <<128>>

\* DBValue::new(): the empty byte string, stored as the placeholder value
EmptyValue == <<>>

\* b"doggo" and b"arf" of tests::consolidate, abbreviated to one byte each
Doggo == <<100>>
Arf == <<97>>

Values == {NULL_RLP, EmptyValue, Doggo, Arf}

\* H::hash: a collision-free digest of the byte string
hash(value) ==
    CASE value = NULL_RLP -> "56e81f17"
      [] value = EmptyValue -> "c5d24601"
      [] value = Doggo -> "d0990000"
      [] value = Arf -> "a4f00000"

\* H::HASHED_NULL_RLP
HASHED_NULL_RLP == hash(NULL_RLP)

Digests == {hash(v) : v \in Values}

\* Option<T>: None is the empty set, Some(x) the singleton
None == {}
Some(x) == {x}

\* H256FastMap::default(): the empty map
EmptyMap == <<>>

Stores == {"main", "other", "single"}

(***************************************************************************)
(* Queries of MemoryDB, as functions of the map m = self.data.             *)
(***************************************************************************)
raw(m, key) ==
    IF key = HASHED_NULL_RLP THEN Some(<<NULL_RLP, 1>>)
    ELSE IF key \in DOMAIN m THEN Some(m[key]) ELSE None

\* keys with the test `v.1 > 0` in place of `v.1 != 0`
keys_positive(m) ==
    [k \in {d \in DOMAIN m : m[d][2] > 0} |-> m[k][2]]

keys(m) ==
    [k \in {d \in DOMAIN m : m[d][2] # 0} |-> m[k][2]]

\* get with the test `rc >= 0` in place of `rc > 0`
get_nonnegative(m, key) ==
    IF key = HASHED_NULL_RLP THEN Some(NULL_RLP)
    ELSE IF key \in DOMAIN m /\ m[key][2] >= 0 THEN Some(m[key][1]) ELSE None

get(m, key) ==
    IF key = HASHED_NULL_RLP THEN Some(NULL_RLP)
    ELSE IF key \in DOMAIN m /\ m[key][2] > 0 THEN Some(m[key][1]) ELSE None

\* contains with the test `x >= 0` in place of `x > 0`
contains_nonnegative(m, key) ==
    IF key = HASHED_NULL_RLP THEN TRUE
    ELSE key \in DOMAIN m /\ m[key][2] >= 0

contains(m, key) ==
    IF key = HASHED_NULL_RLP THEN TRUE
    ELSE key \in DOMAIN m /\ m[key][2] > 0

(***************************************************************************)
(* Mutations of MemoryDB, as functions from the map before the call to the *)
(* map after it.                                                           *)
(***************************************************************************)
clear(m) == EmptyMap

\* purge with the test `rc > 0` in place of `rc != 0`
purge_nonpositive(m) ==
    [k \in {d \in DOMAIN m : m[d][2] > 0} |-> m[k]]

\* purge that stops after the first entry it deletes
purge_first(m) ==
    LET zero == {d \in DOMAIN m : m[d][2] = 0}
    IN  IF zero = {} THEN m
        ELSE [k \in DOMAIN m \ {CHOOSE d \in zero : TRUE} |-> m[k]]

purge(m) ==
    [k \in {d \in DOMAIN m : m[d][2] # 0} |-> m[k]]

\* drain that hands out a copy and leaves the map in place
drain_keeps(m) == m

\* the map left in self by drain; the map returned is m itself
drain(m) == EmptyMap

\* remove_and_purge with the test `<= 1` in place of `== 1`
remove_and_purge_at_most_one(m, key) ==
    IF key = HASHED_NULL_RLP THEN m
    ELSE IF key \in DOMAIN m
         THEN IF m[key][2] <= 1
              THEN [k \in DOMAIN m \ {key} |-> m[k]]
              ELSE [m EXCEPT ![key] = <<@[1], @[2] - 1>>]
         ELSE m @@ (key :> <<EmptyValue, -1>>)

remove_and_purge(m, key) ==
    IF key = HASHED_NULL_RLP THEN m
    ELSE IF key \in DOMAIN m
         THEN IF m[key][2] = 1
              THEN [k \in DOMAIN m \ {key} |-> m[k]]
              ELSE [m EXCEPT ![key] = <<@[1], @[2] - 1>>]
         ELSE m @@ (key :> <<EmptyValue, -1>>)

\* the value remove_and_purge returns
remove_and_purge_ret(m, key) ==
    IF key # HASHED_NULL_RLP /\ key \in DOMAIN m /\ m[key][2] = 1
    THEN Some(m[key][1]) ELSE None

\* consolidate's iteration with `= rc` in place of `+= rc`
consolidate_entry_assigns(m, key, value, rc) ==
    IF key \in DOMAIN m
    THEN [m EXCEPT ![key] = <<IF @[2] < 0 THEN value ELSE @[1], rc>>]
    ELSE m @@ (key :> <<value, rc>>)

\* consolidate's iteration with the test `<= 0` in place of `< 0`
consolidate_entry_nonpositive(m, key, value, rc) ==
    IF key \in DOMAIN m
    THEN [m EXCEPT ![key] = <<IF @[2] <= 0 THEN value ELSE @[1], @[2] + rc>>]
    ELSE m @@ (key :> <<value, rc>>)

\* consolidate's iteration without the overwrite of a placeholder
consolidate_entry_keeps(m, key, value, rc) ==
    IF key \in DOMAIN m
    THEN [m EXCEPT ![key] = <<@[1], @[2] + rc>>]
    ELSE m @@ (key :> <<value, rc>>)

\* consolidate's iteration that stores a vacant entry with refcount 1
consolidate_entry_vacant_one(m, key, value, rc) ==
    IF key \in DOMAIN m
    THEN [m EXCEPT ![key] = <<IF @[2] < 0 THEN value ELSE @[1], @[2] + rc>>]
    ELSE m @@ (key :> <<value, 1>>)

\* one iteration of the loop of consolidate: merge (key, (value, rc)) into m
consolidate_entry(m, key, value, rc) ==
    IF key \in DOMAIN m
    THEN [m EXCEPT ![key] = <<IF @[2] < 0 THEN value ELSE @[1], @[2] + rc>>]
    ELSE m @@ (key :> <<value, rc>>)

\* the loop of consolidate over other.drain(); the keys of a map are
\* distinct, so the iterations touch distinct entries of m and the result
\* does not depend on the iteration order of the hash map
RECURSIVE consolidate_loop(_, _, _)
consolidate_loop(m, other, todo) ==
    IF todo = {} THEN m
    ELSE LET key == CHOOSE k \in todo : TRUE
         IN consolidate_loop(consolidate_entry(m, key, other[key][1], other[key][2]),
                             other, todo \ {key})

consolidate(m, other) == consolidate_loop(m, other, DOMAIN other)

\* insert that restarts a non-positive refcount at 1
insert_restarts(m, value) ==
    IF value = NULL_RLP THEN m
    ELSE LET key == hash(value)
         IN IF key \in DOMAIN m
            THEN [m EXCEPT ![key] = IF @[2] <= 0 THEN <<value, 1>> ELSE <<@[1], @[2] + 1>>]
            ELSE m @@ (key :> <<value, 1>>)

\* insert without the overwrite of the bytes of a non-positive entry
insert_keeps(m, value) ==
    IF value = NULL_RLP THEN m
    ELSE LET key == hash(value)
         IN IF key \in DOMAIN m
            THEN [m EXCEPT ![key] = <<@[1], @[2] + 1>>]
            ELSE m @@ (key :> <<value, 1>>)

insert(m, value) ==
    IF value = NULL_RLP THEN m
    ELSE LET key == hash(value)
         IN IF key \in DOMAIN m
            THEN [m EXCEPT ![key] = <<IF @[2] <= 0 THEN value ELSE @[1], @[2] + 1>>]
            ELSE m @@ (key :> <<value, 1>>)

\* the digest insert returns
insert_ret(value) ==
    IF value = NULL_RLP THEN HASHED_NULL_RLP ELSE hash(value)

\* emplace with the test `< 0` in place of `<= 0`
emplace_negative(m, key, value) ==
    IF value = NULL_RLP THEN m
    ELSE IF key \in DOMAIN m
         THEN [m EXCEPT ![key] = <<IF @[2] < 0 THEN value ELSE @[1], @[2] + 1>>]
         ELSE m @@ (key :> <<value, 1>>)

emplace(m, key, value) ==
    IF value = NULL_RLP THEN m
    ELSE IF key \in DOMAIN m
         THEN [m EXCEPT ![key] = <<IF @[2] <= 0 THEN value ELSE @[1], @[2] + 1>>]
         ELSE m @@ (key :> <<value, 1>>)

\* remove without the early return for HASHED_NULL_RLP
remove_unguarded(m, key) ==
    IF key \in DOMAIN m
    THEN [m EXCEPT ![key] = <<@[1], @[2] - 1>>]
    ELSE m @@ (key :> <<EmptyValue, -1>>)

\* remove that creates the placeholder with refcount 0
remove_placeholder_zero(m, key) ==
    IF key = HASHED_NULL_RLP THEN m
    ELSE IF key \in DOMAIN m
         THEN [m EXCEPT ![key] = <<@[1], @[2] - 1>>]
         ELSE m @@ (key :> <<EmptyValue, 0>>)

\* remove that deletes the entry when its refcount reaches 0
remove_deletes_zero(m, key) ==
    IF key = HASHED_NULL_RLP THEN m
    ELSE IF key \in DOMAIN m
         THEN IF m[key][2] = 1
              THEN [k \in DOMAIN m \ {key} |-> m[k]]
              ELSE [m EXCEPT ![key] = <<@[1], @[2] - 1>>]
         ELSE m @@ (key :> <<EmptyValue, -1>>)

remove(m, key) ==
    IF key = HASHED_NULL_RLP THEN m
    ELSE IF key \in DOMAIN m
         THEN [m EXCEPT ![key] = <<@[1], @[2] - 1>>]
         ELSE m @@ (key :> <<EmptyValue, -1>>)

(***************************************************************************)
(* The inputs the operations are called with.                              *)
(***************************************************************************)
\* the digests the operations are called with
Keys == {HASHED_NULL_RLP, hash(Doggo), hash(Arf)}

\* the values insert is called with
InsertValues == {NULL_RLP, Doggo, Arf}

\* the (key, value) pairs emplace is called with: the matching pairs, a
\* value under the digest of another value, a value under the null digest,
\* and the null value
EmplaceInputs ==
    {<<hash(Doggo), Doggo>>, <<hash(Arf), Arf>>, <<hash(Doggo), Arf>>,
     <<HASHED_NULL_RLP, Doggo>>, <<hash(Arf), NULL_RLP>>}

\* the value whose digest is key
Preimage(key) == CHOOSE v \in Values : hash(v) = key

\* the entries a store passed to consolidate holds under key: the
\* placeholder left by removes, and the value of that digest inserted and
\* removed any number of times
OtherEntries(key) ==
    {<<EmptyValue, -r>> : r \in 1..MaxOtherRc}
    \cup {<<Preimage(key), r>> : r \in -MaxOtherRc..MaxOtherRc}

\* the stores passed to consolidate
OtherMaps ==
    UNION {{f \in [S -> UNION {OtherEntries(k) : k \in S}] :
               \A k \in S : f[k] \in OtherEntries(k)}
           : S \in SUBSET (Keys \ {HASHED_NULL_RLP})}

\* every refcount of m is within the bound of the model
InRange(m) == \A k \in DOMAIN m : m[k][2] \in -MaxRc..MaxRc

\* the record of the last call: its name, arguments and return value
Call(op, key, value, other, ret) ==
    [op |-> op, key |-> key, value |-> value, other |-> other, ret |-> ret]

NoKey == "-"
NoValue == <<>>

(***************************************************************************)
(* The operations applied to the store s.                                  *)
(***************************************************************************)
DoInsert(s, value) ==
    /\ InRange(insert(data[s], value))
    /\ data' = [data EXCEPT ![s] = insert(@, value)]
    /\ last' = Call("insert", NoKey, value, EmptyMap, Some(insert_ret(value)))

DoEmplace(s, key, value) ==
    /\ InRange(emplace(data[s], key, value))
    /\ data' = [data EXCEPT ![s] = emplace(@, key, value)]
    /\ last' = Call("emplace", key, value, EmptyMap, None)

DoRemove(s, key) ==
    /\ InRange(remove(data[s], key))
    /\ data' = [data EXCEPT ![s] = remove(@, key)]
    /\ last' = Call("remove", key, NoValue, EmptyMap, None)

DoRemoveAndPurge(s, key) ==
    /\ InRange(remove_and_purge(data[s], key))
    /\ data' = [data EXCEPT ![s] = remove_and_purge(@, key)]
    /\ last' = Call("remove_and_purge", key, NoValue, EmptyMap,
                    remove_and_purge_ret(data[s], key))

DoClear(s) ==
    /\ data' = [data EXCEPT ![s] = clear(@)]
    /\ last' = Call("clear", NoKey, NoValue, EmptyMap, None)

DoPurge(s) ==
    /\ data' = [data EXCEPT ![s] = purge(@)]
    /\ last' = Call("purge", NoKey, NoValue, EmptyMap, None)

DoDrain(s) ==
    /\ data' = [data EXCEPT ![s] = drain(@)]
    /\ last' = Call("drain", NoKey, NoValue, EmptyMap, Some(data[s]))

DoConsolidate(s, other) ==
    /\ InRange(consolidate(data[s], other))
    /\ data' = [data EXCEPT ![s] = consolidate(@, other)]
    /\ last' = Call("consolidate", NoKey, NoValue, other, None)

DoGet(s, key) ==
    /\ data' = data
    /\ last' = Call("get", key, NoValue, EmptyMap, get(data[s], key))

DoContains(s, key) ==
    /\ data' = data
    /\ last' = Call("contains", key, NoValue, EmptyMap, Some(contains(data[s], key)))

DoRaw(s, key) ==
    /\ data' = data
    /\ last' = Call("raw", key, NoValue, EmptyMap, raw(data[s], key))

DoKeys(s) ==
    /\ data' = data
    /\ last' = Call("keys", NoKey, NoValue, EmptyMap, Some(keys(data[s])))

(***************************************************************************)
(* Spec: one store, "main", created by new() and then called with any      *)
(* sequence of the operations.                                             *)
(***************************************************************************)
NoCall == Call("new", NoKey, NoValue, EmptyMap, None)

Init ==
    /\ data = [s \in Stores |-> EmptyMap]
    /\ last = NoCall
    /\ log = [s \in Stores |-> <<>>]
    /\ subject = NULL_RLP
    /\ merged = None

Insert == \E value \in InsertValues :
    DoInsert("main", value) /\ UNCHANGED <<log, subject, merged>>

Emplace == \E kv \in EmplaceInputs :
    DoEmplace("main", kv[1], kv[2]) /\ UNCHANGED <<log, subject, merged>>

Remove == \E key \in Keys :
    DoRemove("main", key) /\ UNCHANGED <<log, subject, merged>>

RemoveAndPurge == \E key \in Keys :
    DoRemoveAndPurge("main", key) /\ UNCHANGED <<log, subject, merged>>

Clear == DoClear("main") /\ UNCHANGED <<log, subject, merged>>

Purge == DoPurge("main") /\ UNCHANGED <<log, subject, merged>>

Drain == DoDrain("main") /\ UNCHANGED <<log, subject, merged>>

Consolidate == \E other \in OtherMaps :
    DoConsolidate("main", other) /\ UNCHANGED <<log, subject, merged>>

Get == \E key \in Keys :
    DoGet("main", key) /\ UNCHANGED <<log, subject, merged>>

Contains == \E key \in Keys :
    DoContains("main", key) /\ UNCHANGED <<log, subject, merged>>

Raw == \E key \in Keys :
    DoRaw("main", key) /\ UNCHANGED <<log, subject, merged>>

KeysCall == DoKeys("main") /\ UNCHANGED <<log, subject, merged>>

Next ==
    \/ Insert \/ Emplace \/ Remove \/ RemoveAndPurge
    \/ Clear \/ Purge \/ Drain \/ Consolidate
    \/ Get \/ Contains \/ Raw \/ KeysCall

Spec == Init /\ [][Next]_vars

(***************************************************************************)
(* SpecDoc: the scenario of the documentation example of MemoryDB.  The    *)
(* store "main" starts empty and receives insert(subject) and              *)
(* remove(hash(subject)) calls only, for one non-null value `subject`;     *)
(* log["main"] is the history of the calls.                                *)
(***************************************************************************)
Count(seq, op) == Cardinality({i \in 1..Len(seq) : seq[i] = op})

\* inserts minus removes performed on store s so far
Net(s) == Count(log[s], "insert") - Count(log[s], "remove")

DocInit ==
    /\ data = [s \in Stores |-> EmptyMap]
    /\ last = NoCall
    /\ log = [s \in Stores |-> <<>>]
    /\ subject \in Values \ {NULL_RLP}
    /\ merged = None

DocInsert ==
    /\ Len(log["main"]) < MaxDocOps
    /\ DoInsert("main", subject)
    /\ log' = [log EXCEPT !["main"] = Append(@, "insert")]
    /\ UNCHANGED <<subject, merged>>

DocRemove ==
    /\ Len(log["main"]) < MaxDocOps
    /\ DoRemove("main", hash(subject))
    /\ log' = [log EXCEPT !["main"] = Append(@, "remove")]
    /\ UNCHANGED <<subject, merged>>

DocNext == DocInsert \/ DocRemove

SpecDoc == DocInit /\ [][DocNext]_vars

(***************************************************************************)
(* SpecMerge: a history of insert(subject) and remove(hash(subject)) calls *)
(* split between the stores "main" and "other", and a history applied to   *)
(* the store "single"; then clones of the two sides are consolidated both  *)
(* ways, "ab" being main.consolidate(other) and "ba" other.consolidate(    *)
(* main).                                                                  *)
(***************************************************************************)
SplitLimit(s) == IF s = "single" THEN 2 * MaxSplitOps ELSE MaxSplitOps

SplitInsert == \E s \in Stores :
    /\ merged = None
    /\ Len(log[s]) < SplitLimit(s)
    /\ DoInsert(s, subject)
    /\ log' = [log EXCEPT ![s] = Append(@, "insert")]
    /\ UNCHANGED <<subject, merged>>

SplitRemove == \E s \in Stores :
    /\ merged = None
    /\ Len(log[s]) < SplitLimit(s)
    /\ DoRemove(s, hash(subject))
    /\ log' = [log EXCEPT ![s] = Append(@, "remove")]
    /\ UNCHANGED <<subject, merged>>

MergeBothWays ==
    /\ merged = None
    /\ merged' = Some([ab |-> consolidate(data["main"], data["other"]),
                       ba |-> consolidate(data["other"], data["main"])])
    /\ last' = Call("consolidate", NoKey, NoValue, data["other"], None)
    /\ UNCHANGED <<data, log, subject>>

SplitNext == SplitInsert \/ SplitRemove \/ MergeBothWays

SpecMerge == DocInit /\ [][SplitNext]_vars

(***************************************************************************)
(* Properties.                                                             *)
(***************************************************************************)
\* the refcount of the entry Some(e), as returned by raw
RcOf(opt) == (CHOOSE e \in opt : TRUE)[2]

\* the value of the entry Some(e), as returned by raw
ValueOf(opt) == (CHOOSE e \in opt : TRUE)[1]

\* the refcount stored under key, a missing entry counting as 0
Rc0(m, key) == IF key \in DOMAIN m THEN m[key][2] ELSE 0

\* C1: in a store that starts empty and receives only insert(v) and
\* remove(hash(v)) for one non-null v, after every call the refcount that
\* raw(hash(v)) reports is the number of inserts minus the number of
\* removes so far, and contains(hash(v)) is true exactly when that number
\* is greater than 0.
C1_RefcountIsNet ==
    /\ log["main"] # <<>> =>
          /\ raw(data["main"], hash(subject)) # None
          /\ RcOf(raw(data["main"], hash(subject))) = Net("main")
    /\ contains(data["main"], hash(subject)) <=> Net("main") > 0

\* two inserts and three removes, then one insert (still absent) and a
\* second insert, which makes the digest present again
C1_Witness ==
    /\ log["main"] = <<"insert", "insert", "remove", "remove", "remove",
                       "insert", "insert">>
    /\ raw(data["main"], hash(subject)) = Some(<<subject, 1>>)
    /\ contains(data["main"], hash(subject))

\* C2 as stated: after any insert(v), get on the returned digest yields v.
C2_Original ==
    last.op = "insert" =>
        get(data["main"], CHOOSE k \in last.ret : TRUE) = Some(last.value)

\* C2, amended: insert(v) followed by get on the returned digest yields v
\* when v is the null value, when hash(v) had no entry, or when its
\* refcount before the insert was 0; it yields nothing when that refcount
\* was negative, and the bytes already stored when it was positive.
C2_InsertThenGet ==
    [][last'.op = "insert" =>
        LET v == last'.value
            before == raw(data["main"], hash(v))
            got == get(data'["main"], CHOOSE k \in last'.ret : TRUE)
        IN  IF v = NULL_RLP \/ before = None THEN got = Some(v)
            ELSE IF RcOf(before) = 0 THEN got = Some(v)
            ELSE IF RcOf(before) < 0 THEN got = None
            ELSE got = Some(ValueOf(before))]_vars

\* insert(doggo) has just run and get on its digest yields doggo
C2_Witness ==
    /\ last.op = "insert"
    /\ last.value = Doggo
    /\ last.ret = Some(hash(Doggo))
    /\ get(data["main"], hash(Doggo)) = Some(Doggo)

\* C3 as stated: after two inserts and two removes the digest is present,
\* after a third remove it is absent.
C3_Original ==
    /\ log["main"] = <<"insert", "insert", "remove", "remove">> =>
          contains(data["main"], hash(subject))
    /\ log["main"] = <<"insert", "insert", "remove", "remove", "remove">> =>
          ~contains(data["main"], hash(subject))

\* C3, amended: after two inserts and one remove the digest is present;
\* the second remove makes it absent and a third leaves it absent.
C3_TwoInsertsTwoRemoves ==
    /\ log["main"] = <<"insert", "insert", "remove">> =>
          contains(data["main"], hash(subject))
    /\ log["main"] = <<"insert", "insert", "remove", "remove">> =>
          ~contains(data["main"], hash(subject))
    /\ log["main"] = <<"insert", "insert", "remove", "remove", "remove">> =>
          ~contains(data["main"], hash(subject))

\* two inserts and two removes: the entry is garbage and reported absent
C3_Witness ==
    /\ log["main"] = <<"insert", "insert", "remove", "remove">>
    /\ raw(data["main"], hash(subject)) = Some(<<subject, 0>>)
    /\ ~contains(data["main"], hash(subject))

\* C4: after self.consolidate(other) self holds an entry for exactly the
\* digests that had an entry in self or in other, the refcount of each is
\* the sum of the two refcounts before (a missing entry counting as 0),
\* and an entry whose refcounts sum to 0 is kept.
C4_ConsolidateAddsRefcounts ==
    [][last'.op = "consolidate" =>
        LET self == data["main"]
            other == last'.other
            after == data'["main"]
        IN  /\ DOMAIN after = DOMAIN self \cup DOMAIN other
            /\ \A k \in DOMAIN after : after[k][2] = Rc0(self, k) + Rc0(other, k)]_vars

\* (empty, -1) in self merged with (doggo, 1) of other: kept with refcount 0
C4_Witness ==
    /\ last.op = "consolidate"
    /\ hash(Doggo) \in DOMAIN last.other
    /\ last.other[hash(Doggo)] = <<Doggo, 1>>
    /\ hash(Doggo) \in DOMAIN data["main"]
    /\ data["main"][hash(Doggo)] = <<Doggo, 0>>

\* C5: in self.consolidate(other), for a digest held by both stores the
\* value of self is replaced by the value of other exactly when the
\* refcount of self before the merge is negative, and kept when it is 0 or
\* positive; for a digest self does not hold, the (value, refcount) pair of
\* other is stored as it is.
C5_ConsolidateValue ==
    [][last'.op = "consolidate" =>
        LET self == data["main"]
            other == last'.other
            after == data'["main"]
        IN  \A k \in DOMAIN other :
               /\ k \in DOMAIN after
               /\ IF k \in DOMAIN self
                  THEN after[k][1] = IF self[k][2] < 0 THEN other[k][1] ELSE self[k][1]
                  ELSE after[k] = other[k]]_vars

\* self held (doggo, 0) and other the placeholder (empty, -1): self keeps
\* its own bytes at refcount 0
C5_Witness ==
    /\ last.op = "consolidate"
    /\ hash(Doggo) \in DOMAIN last.other
    /\ last.other[hash(Doggo)] = <<EmptyValue, -1>>
    /\ hash(Doggo) \in DOMAIN data["main"]
    /\ data["main"][hash(Doggo)] = <<Doggo, -1>>

\* at least one side holds the genuine value with a positive refcount
GenuineSide ==
    \E s \in {"main", "other"} :
        get(data[s], hash(subject)) = Some(subject)

\* the history of "single" has the inserts and removes of both sides, in
\* whatever order
SameHistory ==
    /\ Count(log["single"], "insert")
          = Count(log["main"], "insert") + Count(log["other"], "insert")
    /\ Count(log["single"], "remove")
          = Count(log["main"], "remove") + Count(log["other"], "remove")

\* C6: when a history of inserts and removes of one value is split between
\* two initially empty stores and at least one of them holds the genuine
\* value with a positive refcount, merging either into the other gives the
\* entry (value and refcount) that a single store holds after all the
\* operations, in whatever order it received them.
C6_MergeOrderIndependent ==
    (merged # None /\ SameHistory /\ GenuineSide) =>
        LET m == CHOOSE x \in merged : TRUE
        IN  /\ raw(m.ab, hash(subject)) = raw(data["single"], hash(subject))
            /\ raw(m.ba, hash(subject)) = raw(data["single"], hash(subject))

\* main holds (v, 1) after an insert, other the placeholder (empty, -1)
\* after a remove, and the single store received the remove before the
\* insert: all three end with (v, 0)
C6_Witness ==
    /\ merged # None
    /\ log["main"] = <<"insert">>
    /\ log["other"] = <<"remove">>
    /\ log["single"] = <<"remove", "insert">>
    /\ subject = Doggo
    /\ raw((CHOOSE x \in merged : TRUE).ba, hash(subject)) = Some(<<Doggo, 0>>)

\* the entry the map stores under key, if any
Stored(m, key) == IF key \in DOMAIN m THEN Some(m[key]) ELSE None

\* C7 as stated: from any state, insert(v) then remove(hash(v)) leaves the
\* same entry as remove(hash(v)) then insert(v).
C7_Original ==
    \A v \in InsertValues :
        Stored(remove(insert(data["main"], v), hash(v)), hash(v))
            = Stored(insert(remove(data["main"], hash(v)), v), hash(v))

\* C7, amended: from any state, insert(v) then remove(hash(v)) leaves the
\* same refcount as remove(hash(v)) then insert(v), and the same value
\* unless the entry had refcount exactly 1 and held bytes other than v (an
\* emplace of a value under the digest of another); then insert-first
\* keeps the old bytes and remove-first stores v.  For the null value both
\* orders leave the map as it was.
C7_InsertRemoveCommute ==
    \A v \in InsertValues :
        LET k == hash(v)
            m == data["main"]
            ir == Stored(remove(insert(m, v), k), k)
            ri == Stored(insert(remove(m, k), v), k)
        IN  IF v = NULL_RLP
            THEN remove(insert(m, v), k) = m /\ insert(remove(m, k), v) = m
            ELSE /\ ir # None /\ ri # None
                 /\ RcOf(ir) = RcOf(ri)
                 /\ RcOf(ir) = Rc0(m, k)
                 /\ IF k \in DOMAIN m /\ m[k][2] = 1 /\ m[k][1] # v
                    THEN ValueOf(ir) = m[k][1] /\ ValueOf(ri) = v
                    ELSE ValueOf(ir) = ValueOf(ri)

\* a remove recorded before the insert: the placeholder (empty, -1) has
\* been reconciled by insert to (doggo, 0)
C7_Witness ==
    /\ last.op = "insert"
    /\ last.value = Doggo
    /\ raw(data["main"], hash(Doggo)) = Some(<<Doggo, 0>>)
    /\ raw(remove(insert(EmptyMap, Doggo), hash(Doggo)), hash(Doggo))
          = raw(data["main"], hash(Doggo))

\* C8: in every reachable state get(HASHED_NULL_RLP) returns the null
\* value, contains(HASHED_NULL_RLP) is true and raw(HASHED_NULL_RLP) returns
\* (null value, 1); insert of the null value returns HASHED_NULL_RLP and
\* leaves the map unchanged, and remove and remove_and_purge of
\* HASHED_NULL_RLP leave the map unchanged.
C8_NullDigestAlwaysPresent ==
    LET m == data["main"]
    IN  /\ get(m, HASHED_NULL_RLP) = Some(NULL_RLP)
        /\ contains(m, HASHED_NULL_RLP)
        /\ raw(m, HASHED_NULL_RLP) = Some(<<NULL_RLP, 1>>)
        /\ insert(m, NULL_RLP) = m
        /\ insert_ret(NULL_RLP) = HASHED_NULL_RLP
        /\ remove(m, HASHED_NULL_RLP) = m
        /\ remove_and_purge(m, HASHED_NULL_RLP) = m
        /\ remove_and_purge_ret(m, HASHED_NULL_RLP) = None
        /\ (last.op = "get" /\ last.key = HASHED_NULL_RLP) => last.ret = Some(NULL_RLP)
        /\ (last.op = "raw" /\ last.key = HASHED_NULL_RLP) => last.ret = Some(<<NULL_RLP, 1>>)
        /\ (last.op = "contains" /\ last.key = HASHED_NULL_RLP) => last.ret = Some(TRUE)

\* raw(HASHED_NULL_RLP) has just been called on a store that is not empty
\* and has returned (null value, 1)
C8_Witness ==
    /\ last.op = "raw"
    /\ last.key = HASHED_NULL_RLP
    /\ last.ret = Some(<<NULL_RLP, 1>>)
    /\ hash(Doggo) \in DOMAIN data["main"]
    /\ data["main"][hash(Doggo)][2] < 0

\* C9: the map never holds an entry under HASHED_NULL_RLP, and keys() and
\* drain() never list it.
C9_NoNullEntry ==
    /\ HASHED_NULL_RLP \notin DOMAIN data["main"]
    /\ HASHED_NULL_RLP \notin DOMAIN keys(data["main"])
    /\ last.op = "drain" => \A drained \in last.ret : HASHED_NULL_RLP \notin DOMAIN drained

\* C10: purge() deletes exactly the entries whose refcount is 0 and leaves
\* every entry with a positive or negative refcount as it was; a
\* placeholder of refcount -1 survives it.
C10_PurgeDeletesZeroOnly ==
    [][last'.op = "purge" =>
        \A k \in Digests :
            IF k \in DOMAIN data["main"] /\ data["main"][k][2] = 0
            THEN Stored(data'["main"], k) = None
            ELSE Stored(data'["main"], k) = Stored(data["main"], k)]_vars

\* purge has run on a store holding the placeholder (empty, -1) left by a
\* remove of a digest never inserted, and the placeholder is still there
C10_Witness ==
    /\ last.op = "purge"
    /\ raw(data["main"], hash(Doggo)) = Some(<<EmptyValue, -1>>)

\* C11: purge() is idempotent: from any reachable state a second purge
\* leaves the map the first purge left, and a purge that has just run has
\* nothing left to delete.
C11_PurgeIdempotent ==
    /\ purge(purge(data["main"])) = purge(data["main"])
    /\ last.op = "purge" => purge(data["main"]) = data["main"]

\* two garbage entries and a placeholder: the first purge deletes the two
\* and the second has nothing to do
C11_Witness ==
    /\ raw(data["main"], hash(Doggo)) = Some(<<Doggo, 0>>)
    /\ raw(data["main"], hash(Arf)) = Some(<<Arf, 0>>)
    /\ DOMAIN purge(data["main"]) = DOMAIN data["main"] \ {hash(Doggo), hash(Arf)}
    /\ purge(purge(data["main"])) = purge(data["main"])

\* C12: remove_and_purge(d) for a non-null d returns the stored value and
\* deletes the entry exactly when its refcount before the call is 1; for
\* any other existing refcount it subtracts 1, leaves the bytes and returns
\* nothing; when there is no entry it creates (empty, -1) and returns
\* nothing.
C12_RemoveAndPurge ==
    [][(last'.op = "remove_and_purge" /\ last'.key # HASHED_NULL_RLP) =>
        LET d == last'.key
            before == Stored(data["main"], d)
            after == Stored(data'["main"], d)
        IN  IF before = None
            THEN after = Some(<<EmptyValue, -1>>) /\ last'.ret = None
            ELSE IF RcOf(before) = 1
            THEN after = None /\ last'.ret = Some(ValueOf(before))
            ELSE /\ after = Some(<<ValueOf(before), RcOf(before) - 1>>)
                 /\ last'.ret = None]_vars

\* remove_and_purge has returned the bytes of doggo and left raw absent
C12_Witness ==
    /\ last.op = "remove_and_purge"
    /\ last.key = hash(Doggo)
    /\ last.ret = Some(Doggo)
    /\ raw(data["main"], hash(Doggo)) = None

\* C13: for every non-null digest d, get(d) returns a value exactly when an
\* entry for d exists with refcount > 0, the value is the stored one, and
\* contains(d) is true exactly when get(d) returns a value; an entry with
\* refcount 0 or negative is absent for both while raw(d) returns it.
C13_GetContainsLive ==
    \A d \in Digests \ {HASHED_NULL_RLP} :
        LET m == data["main"]
            live == d \in DOMAIN m /\ m[d][2] > 0
        IN  /\ get(m, d) # None <=> live
            /\ live => get(m, d) = Some(m[d][1])
            /\ contains(m, d) <=> get(m, d) # None
            /\ (d \in DOMAIN m /\ m[d][2] <= 0) =>
                  /\ get(m, d) = None
                  /\ ~contains(m, d)
                  /\ raw(m, d) = Some(m[d])
            /\ (last.op = "get" /\ last.key = d) => last.ret = get(m, d)
            /\ (last.op = "contains" /\ last.key = d) => last.ret = Some(contains(m, d))

\* get has just returned nothing for a garbage entry that raw still returns
C13_Witness ==
    /\ last.op = "get"
    /\ last.key = hash(Doggo)
    /\ last.ret = None
    /\ raw(data["main"], hash(Doggo)) = Some(<<Doggo, 0>>)

\* the map Some(d) holds, as returned by drain
MapOf(opt) == CHOOSE d \in opt : TRUE

\* C14: drain() returns the whole map as it was before the call, entries
\* with refcount 0 and negative refcounts included, and leaves the store
\* empty: afterwards raw, get and contains report every non-null digest
\* absent.
C14_DrainReturnsAll ==
    [][last'.op = "drain" =>
        /\ last'.ret = Some(data["main"])
        /\ data'["main"] = EmptyMap
        /\ \A d \in Digests \ {HASHED_NULL_RLP} :
              /\ raw(data'["main"], d) = None
              /\ get(data'["main"], d) = None
              /\ ~contains(data'["main"], d)]_vars

\* drain has returned a map with a garbage entry and a pending removal
C14_Witness ==
    /\ last.op = "drain"
    /\ last.ret # None
    /\ Stored(MapOf(last.ret), hash(Doggo)) = Some(<<Doggo, 0>>)
    /\ Stored(MapOf(last.ret), hash(Arf)) = Some(<<EmptyValue, -2>>)
    /\ data["main"] = EmptyMap

\* C15: drain() followed by consolidating a store that holds the drained
\* map into the now empty store gives a store whose map, and so whose raw,
\* get, contains and keys results, are those before the drain.
C15_DrainRoundTrip ==
    [][last'.op = "drain" =>
        LET before == data["main"]
            again == consolidate(data'["main"], MapOf(last'.ret))
        IN  /\ again = before
            /\ keys(again) = keys(before)
            /\ \A d \in Digests :
                  /\ raw(again, d) = raw(before, d)
                  /\ get(again, d) = get(before, d)
                  /\ contains(again, d) = contains(before, d)]_vars

\* drain has emptied a store of a live entry and a placeholder, and
\* consolidating the drained map into it brings both back
C15_Witness ==
    /\ last.op = "drain"
    /\ last.ret # None
    /\ Stored(MapOf(last.ret), hash(Doggo)) = Some(<<Doggo, 2>>)
    /\ Stored(MapOf(last.ret), hash(Arf)) = Some(<<EmptyValue, -1>>)
    /\ consolidate(data["main"], MapOf(last.ret)) = MapOf(last.ret)

\* C16: keys() returns exactly the digests whose stored refcount is not 0,
\* each with its refcount: live and pending-removal entries are listed,
\* garbage entries are not; the call leaves the store as it was.
C16_KeysNonZero ==
    [][last'.op = "keys" =>
        /\ data' = data
        /\ last'.ret # None
        /\ \A d \in Digests :
              IF Rc0(data["main"], d) # 0
              THEN /\ d \in DOMAIN MapOf(last'.ret)
                   /\ MapOf(last'.ret)[d] = data["main"][d][2]
              ELSE d \notin DOMAIN MapOf(last'.ret)]_vars

\* keys has listed a pending removal and left out a garbage entry
C16_Witness ==
    /\ last.op = "keys"
    /\ last.ret = Some((hash(Arf) :> -1))
    /\ raw(data["main"], hash(Doggo)) = Some(<<Doggo, 0>>)

\* C17: an entry leaves the map only through purge, and then only if its
\* refcount is 0, through remove_and_purge of its digest, and then only if
\* its refcount is 1, or through clear or drain; insert, emplace, remove
\* and consolidate never remove an entry, whatever refcount results.
C17_EntryLeavesOnlyBy ==
    [][\A d \in DOMAIN data["main"] :
          d \notin DOMAIN data'["main"] =>
             \/ last'.op = "purge" /\ data["main"][d][2] = 0
             \/ /\ last'.op = "remove_and_purge"
                /\ last'.key = d
                /\ data["main"][d][2] = 1
             \/ last'.op \in {"clear", "drain"}]_vars

\* remove has brought a live entry to refcount 0 and the entry is still
\* in the map
C17_Witness ==
    /\ last.op = "remove"
    /\ last.key = hash(Arf)
    /\ Stored(data["main"], hash(Arf)) = Some(<<Arf, 0>>)

\* C18: from any state emplace(hash(v), v) leaves the store as insert(v)
\* does: (v, 1) when there is no entry, v stored and 1 added when the
\* refcount is 0 or negative, only 1 added when it is positive, nothing
\* changed when v is the null value.
C18_EmplaceAsInsert ==
    \A v \in Values :
        LET m == data["main"]
            d == hash(v)
            e == emplace(m, d, v)
        IN  /\ e = insert(m, v)
            /\ \A k \in Digests \ {d} : Stored(e, k) = Stored(m, k)
            /\ IF v = NULL_RLP THEN e = m
               ELSE IF d \notin DOMAIN m THEN Stored(e, d) = Some(<<v, 1>>)
               ELSE IF m[d][2] <= 0 THEN Stored(e, d) = Some(<<v, m[d][2] + 1>>)
               ELSE Stored(e, d) = Some(<<m[d][1], m[d][2] + 1>>)

\* emplace(hash(doggo), doggo) has just run and left the entry that
\* insert(doggo) leaves from the same state
C18_Witness ==
    /\ last.op = "emplace"
    /\ last.key = hash(Doggo)
    /\ last.value = Doggo
    /\ Stored(data["main"], hash(Doggo)) = Some(<<Doggo, 1>>)
    /\ insert(remove(data["main"], hash(Doggo)), Doggo) = data["main"]

(***************************************************************************)
(* SpecTrusted: the store "main" called with any sequence of the           *)
(* operations, every emplace with the value that matches its digest and no *)
(* insert of the empty byte string.                                        *)
(***************************************************************************)
\* the (key, value) pairs of an emplace whose caller knows the mapping
TrustedEmplaceInputs == {kv \in EmplaceInputs : kv[1] = hash(kv[2])}

TrustedEmplace == \E kv \in TrustedEmplaceInputs :
    DoEmplace("main", kv[1], kv[2]) /\ UNCHANGED <<log, subject, merged>>

TrustedNext ==
    \/ Insert \/ TrustedEmplace \/ Remove \/ RemoveAndPurge
    \/ Clear \/ Purge \/ Drain \/ Consolidate
    \/ Get \/ Contains \/ Raw \/ KeysCall

SpecTrusted == Init /\ [][TrustedNext]_vars

\* C19: when every emplace passes the value that matches its digest and no
\* inserted value is the empty byte string, every stored entry whose
\* refcount is 0 or positive holds the value of its digest, never the
\* empty placeholder; so get never returns a placeholder, also after a
\* consolidate that kept the value of self at refcount 0.
C19_NonNegativeIsGenuine ==
    /\ \A d \in DOMAIN data["main"] :
          data["main"][d][2] >= 0 =>
             /\ data["main"][d][1] # EmptyValue
             /\ hash(data["main"][d][1]) = d
    /\ \A d \in Digests : get(data["main"], d) # Some(EmptyValue)
    /\ last.op = "get" => last.ret # Some(EmptyValue)

\* consolidate has met (arf, 0) in self with (arf, 1) of other: self kept
\* its bytes and the entry is live with the genuine value
C19_Witness ==
    /\ last.op = "consolidate"
    /\ Stored(last.other, hash(Arf)) = Some(<<Arf, 1>>)
    /\ Stored(data["main"], hash(Arf)) = Some(<<Arf, 1>>)
    /\ get(data["main"], hash(Arf)) = Some(Arf)

\* the digest a call of insert, emplace, remove or remove_and_purge targets
Target(call) == IF call.op = "insert" THEN hash(call.value) ELSE call.key

\* the calls that return early: the null value or the null digest
NullCall(call) ==
    IF call.op \in {"insert", "emplace"} THEN call.value = NULL_RLP
    ELSE call.key = HASHED_NULL_RLP

\* C20: insert, emplace, remove and remove_and_purge change the entry of
\* at most the digest they target and leave the value and refcount of
\* every other digest as they were; unless the call is one of the no-ops
\* on the null value or null digest, the refcount of the target changes by
\* exactly +1 (insert, emplace) or -1 (remove, remove_and_purge), an absent
\* entry counting as 0; get, contains, raw and keys change nothing.
C20_Frame ==
    [][/\ last'.op \in {"insert", "emplace", "remove", "remove_and_purge"} =>
           LET before == data["main"]
               after == data'["main"]
               t == Target(last')
               delta == IF last'.op \in {"insert", "emplace"} THEN 1 ELSE -1
           IN  /\ \A d \in Digests \ {t} : Stored(after, d) = Stored(before, d)
               /\ IF NullCall(last') THEN after = before
                  ELSE Rc0(after, t) = Rc0(before, t) + delta
               /\ data'["other"] = data["other"]
               /\ data'["single"] = data["single"]
       /\ last'.op \in {"get", "contains", "raw", "keys"} => data' = data]_vars

\* remove_and_purge has deleted the entry of doggo at refcount 1 and the
\* placeholder of arf is as it was
C20_Witness ==
    /\ last.op = "remove_and_purge"
    /\ last.key = hash(Doggo)
    /\ last.ret = Some(Doggo)
    /\ Stored(data["main"], hash(Doggo)) = None
    /\ Stored(data["main"], hash(Arf)) = Some(<<EmptyValue, -2>>)

====
